---- MODULE Spec2Model ----
(***************************************************************************)
(* A model of the hand-rolled HTTP/1.1 client of neuralweather/esp         *)
(* (src/http.py) and of the measure-and-report loop that drives it         *)
(* (src/main.py).                                                          *)
(*                                                                         *)
(* Text is modelled as a sequence of characters, each character a string  *)
(* of length one ("\r" and "\n" are CR and LF).  The token "U+E9" stands *)
(* for the one character e-acute, whose UTF-8 encoding is the two bytes    *)
(* "xC3" "xA9"; "xFF" is a byte that is no valid UTF-8.                    *)
(***************************************************************************)
EXTENDS Integers, Sequences, FiniteSets, TLC

\* ------------------------------------------------------------------------
\* Python's str operations, as the source uses them
\* ------------------------------------------------------------------------

CR == "\r"
LF == "\n"
CRLF == <<CR, LF>>
CRLFCRLF == <<CR, LF, CR, LF>>
Whitespace == {" ", "\t", CR, LF}
Digits == <<"0", "1", "2", "3", "4", "5", "6", "7", "8", "9">>

Min(a, b) == IF a < b THEN a ELSE b

\* s[i:] of Python, with i counted from 1 here
Tail_(s, i) == SubSeq(s, i, Len(s))

\* p occurs in s at position i
Occurs(s, p, i) == i + Len(p) - 1 <= Len(s) /\ SubSeq(s, i, i + Len(p) - 1) = p

\* str.find, positions counted from 1; 0 when p does not occur (str.index
\* raises ValueError there)
Find(s, p) ==
    IF \E i \in 1..Len(s) : Occurs(s, p, i)
    THEN CHOOSE i \in 1..Len(s) : Occurs(s, p, i) /\ \A j \in 1..(i - 1) : ~Occurs(s, p, j)
    ELSE 0

\* str.startswith
StartsWith(s, p) == Occurs(s, p, 1)

\* c in s, for one character
Contains(s, c) == \E i \in 1..Len(s) : s[i] = c

\* str.split(sep): every piece, the empty ones included
RECURSIVE Split(_, _)
Split(s, sep) ==
    LET i == Find(s, sep)
    IN  IF i = 0 THEN <<s>>
        ELSE <<SubSeq(s, 1, i - 1)>> \o Split(Tail_(s, i + Len(sep)), sep)

\* str.split(sep, 1)
Split1(s, sep) ==
    LET i == Find(s, sep)
    IN  IF i = 0 THEN <<s>>
        ELSE <<SubSeq(s, 1, i - 1), Tail_(s, i + Len(sep))>>

\* str.split(): runs of whitespace separate, no empty piece
RECURSIVE SplitWS(_)
SplitWS(s) ==
    IF s = <<>> THEN <<>>
    ELSE IF s[1] \in Whitespace THEN SplitWS(Tail(s))
    ELSE LET n == IF \E i \in 1..Len(s) : s[i] \in Whitespace
                  THEN (CHOOSE i \in 1..Len(s) : s[i] \in Whitespace
                                /\ \A j \in 1..(i - 1) : s[j] \notin Whitespace) - 1
                  ELSE Len(s)
         IN  <<SubSeq(s, 1, n)>> \o SplitWS(Tail_(s, n + 1))

\* ''.join(list)
RECURSIVE Concat(_)
Concat(ss) ==
    IF ss = <<>> THEN <<>>
    ELSE IF Len(ss) = 1 THEN ss[1]
    ELSE LET half == Len(ss) \div 2
         IN  Concat(SubSeq(ss, 1, half)) \o Concat(SubSeq(ss, half + 1, Len(ss)))

\* str.replace(c, "") for one character
Remove(s, c) == Concat([i \in 1..Len(s) |-> IF s[i] = c THEN <<>> ELSE <<s[i]>>])

IsDigit(c) == \E d \in 1..10 : Digits[d] = c
DigitVal(c) == (CHOOSE d \in 1..10 : Digits[d] = c) - 1

\* int(s) can be computed: s is a non-empty run of decimal digits
IsNumeral(s) == s # <<>> /\ \A i \in 1..Len(s) : IsDigit(s[i])

RECURSIVE StrToInt(_)
StrToInt(s) ==
    IF s = <<>> THEN 0
    ELSE 10 * StrToInt(SubSeq(s, 1, Len(s) - 1)) + DigitVal(s[Len(s)])

\* f"{n}" for a natural number
RECURSIVE IntToStr(_)
IntToStr(n) ==
    IF n < 10 THEN <<Digits[n + 1]>>
    ELSE IntToStr(n \div 10) \o <<Digits[(n % 10) + 1]>>

\* str.encode(s): UTF-8, the character U+E9 takes two bytes
Encode(s) ==
    Concat([i \in 1..Len(s) |-> IF s[i] = "U+E9" THEN <<"xC3", "xA9">> ELSE <<s[i]>>])

\* bytes.decode("utf-8") raises UnicodeError
RECURSIVE DecodeFails(_)
DecodeFails(b) ==
    IF b = <<>> THEN FALSE
    ELSE IF b[1] = "xC3" THEN Len(b) < 2 \/ b[2] # "xA9" \/ DecodeFails(Tail_(b, 3))
    ELSE IF b[1] \in {"xA9", "xFF"} THEN TRUE
    ELSE DecodeFails(Tail(b))

\* bytes.decode("utf-8") of a valid buffer
RECURSIVE Decode(_)
Decode(b) ==
    IF b = <<>> THEN <<>>
    ELSE IF b[1] = "xC3" THEN <<"U+E9">> \o Decode(Tail_(b, 3))
    ELSE <<b[1]>> \o Decode(Tail(b))

\* ------------------------------------------------------------------------
\* Constants of the source
\* ------------------------------------------------------------------------

HTTP_VERSION == <<"H", "T", "T", "P", "/", "1", ".", "1">>
HTTP_POST == <<"P", "O", "S", "T">>
HTTP_GET == <<"G", "E", "T">>

\* ------------------------------------------------------------------------
\* HTTPRequest: URL parsing and request construction
\* ------------------------------------------------------------------------

NoPort == [isInt |-> TRUE, n |-> 0, s |-> <<>>]
NoURL == [err |-> "none", scheme |-> <<>>, netloc_abs |-> <<>>, netloc_host |-> <<>>,
          netloc_port |-> NoPort, path |-> <<>>]

\* HTTPRequest._parse_url.  netloc_port is the text after the first ":" of
\* the authority, or the integer 80.
_parse_url(u) ==
    IF ~StartsWith(u, <<"h", "t", "t", "p">>) THEN [NoURL EXCEPT !.err = "ValueError"]
    ELSE LET url_parts == Split(u, <<"/">>)
         IN  IF Len(url_parts) < 3 THEN [NoURL EXCEPT !.err = "IndexError"]
             ELSE LET netloc_abs == url_parts[3]
                      netloc_parts == Split(netloc_abs, <<":">>)
                  IN  [err |-> "none",
                       scheme |-> Remove(url_parts[1], ":"),
                       netloc_abs |-> netloc_abs,
                       netloc_host |-> IF Contains(netloc_abs, ":") THEN netloc_parts[1]
                                       ELSE netloc_abs,
                       netloc_port |-> IF Contains(netloc_abs, ":")
                                       THEN [isInt |-> FALSE, n |-> 0, s |-> netloc_parts[2]]
                                       ELSE [isInt |-> TRUE, n |-> 80, s |-> <<>>],
                       path |-> Concat([i \in 1..(Len(url_parts) - 3) |->
                                           <<"/">> \o url_parts[i + 3]])]

\* int(dest_port) of HTTPRequest.__init__ raises ValueError
PortFails(p) == ~p.isInt /\ ~IsNumeral(p.s)
PortValue(p) == IF p.isInt THEN p.n ELSE StrToInt(p.s)

\* HTTPRequest._parse_http_json: dumps(self.json) for a dictionary of
\* ASCII keys and integer values, with the default separators
RECURSIVE DumpItems(_)
DumpItems(j) ==
    IF j = <<>> THEN <<>>
    ELSE <<"\"">> \o j[1][1] \o <<"\"", ":", " ">> \o IntToStr(j[1][2])
         \o (IF Len(j) > 1 THEN <<",", " ">> ELSE <<>>) \o DumpItems(Tail(j))

_parse_http_json(j) == <<"{">> \o DumpItems(j) \o <<"}">>

\* HTTPRequest._parse_http_data
RECURSIVE _parse_http_data(_)
_parse_http_data(d) ==
    IF d = <<>> THEN <<>>
    ELSE d[1][1] \o <<"=">> \o d[1][2]
         \o (IF Len(d) > 1 THEN <<"&">> ELSE <<>>) \o _parse_http_data(Tail(d))

\* HTTPRequest.content_length(json_body): len() of the text
content_length(d, j, json_body) ==
    IF ~json_body THEN Len(_parse_http_data(d)) ELSE Len(_parse_http_json(j))

\* the f"{header_key}: {header_value}\r\n" lines of the caller's headers
RECURSIVE HeaderLines(_)
HeaderLines(h) ==
    IF h = <<>> THEN <<>>
    ELSE h[1][1] \o <<":", " ">> \o h[1][2] \o CRLF \o HeaderLines(Tail(h))

\* (mutant) the Host value taken from netloc[1], the host without the port
HostHeaderValue_HostOnly(u) == _parse_url(u).netloc_host

\* the value HTTPRequest._parse_http_headers puts after "Host: "
HostHeaderValue(u) == _parse_url(u).netloc_abs

\* HTTPRequest._parse_http_headers (the URL is known to parse)
_parse_http_headers(m, u, d, j, h) ==
    <<"H", "o", "s", "t", ":", " ">> \o HostHeaderValue(u) \o CRLF
    \o (IF m = HTTP_POST
        THEN <<"C", "o", "n", "t", "e", "n", "t", "-", "L", "e", "n", "g", "t", "h", ":", " ">>
             \o IntToStr(content_length(d, j, j # <<>>)) \o CRLF
        ELSE <<>>)
    \o HeaderLines(h)

\* HTTPRequest.construct_http_request (the URL is known to parse)
construct_http_request(m, u, d, j, h) ==
    LET parsed_url == _parse_url(u)
        http_headers == _parse_http_headers(m, u, d, j, h)
        body_data == IF j = <<>> THEN _parse_http_data(d) ELSE _parse_http_json(j)
    IN  IF m = HTTP_GET
        THEN m \o <<" ">> \o parsed_url.path
             \o (IF d # <<>> /\ j = <<>> THEN <<"?">> \o body_data ELSE <<>>)
             \o <<" ">> \o HTTP_VERSION \o CRLF \o http_headers \o CRLF
        ELSE m \o <<" ">> \o parsed_url.path \o <<" ">> \o HTTP_VERSION \o CRLF
             \o http_headers \o CRLF \o body_data

\* ------------------------------------------------------------------------
\* HTTPResponse: the accessors, each computed from the raw text on access
\* ------------------------------------------------------------------------

NoValue == [err |-> "none", int |-> 0, str |-> <<>>, map |-> <<>>]
Raises(e) == [NoValue EXCEPT !.err = e]

\* HTTPResponse._status_line: the three first words of the first line
_status_line(r) ==
    LET status_line_end_idx == Find(r, CRLF)
        status_line_raw == SplitWS(SubSeq(r, 1, status_line_end_idx - 1))
    IN  IF status_line_end_idx = 0 THEN Raises("ValueError")
        ELSE IF Len(status_line_raw) < 3 THEN Raises("IndexError")
        ELSE [NoValue EXCEPT !.str = status_line_raw[2]]

\* HTTPResponse.status_code
status_code(r) ==
    LET sl == _status_line(r)
    IN  IF sl.err # "none" THEN sl
        ELSE IF ~IsNumeral(sl.str) THEN Raises("ValueError")
        ELSE [NoValue EXCEPT !.int = StrToInt(sl.str)]

\* HTTPResponse.text
text(r) ==
    LET text_start_idx == Find(r, CRLFCRLF)
    IN  IF text_start_idx = 0 THEN Raises("ValueError")
        ELSE [NoValue EXCEPT !.str = Tail_(r, text_start_idx + 4)]

\* the dictionary comprehension of HTTPResponse.headers over the split
\* lines: a later line with the same key replaces the earlier one.  The
\* mapping is a sequence of <<key, value>> pairs in insertion order.
RECURSIVE DictPut(_, _, _)
DictPut(m, k, v) ==
    IF m = <<>> THEN <<<<k, v>>>>
    ELSE IF m[1][1] = k THEN <<<<k, v>>>> \o Tail(m)
    ELSE <<m[1]>> \o DictPut(Tail(m), k, v)

RECURSIVE HeaderDict(_, _)
HeaderDict(lines, acc) ==
    IF lines = <<>> THEN [NoValue EXCEPT !.map = acc]
    ELSE LET key_value == Split1(lines[1], <<":">>)
         IN  IF Len(key_value) < 2 THEN Raises("IndexError")
             ELSE HeaderDict(Tail(lines), DictPut(acc, key_value[1], key_value[2]))

\* HTTPResponse.headers
headers_(r) ==
    LET header_start_idx == Find(r, CRLF)
        header_end_idx == Find(r, CRLFCRLF)
        http_headers == Remove(SubSeq(r, header_start_idx + 2, header_end_idx - 1), " ")
    IN  IF header_start_idx = 0 \/ header_end_idx = 0 THEN Raises("ValueError")
        ELSE HeaderDict(Split(http_headers, CRLF), <<>>)

\* ------------------------------------------------------------------------
\* Bounds and input sets
\* ------------------------------------------------------------------------

\* calls one behaviour makes (the caller's retries included)
MaxCalls == 2
\* bytes of the request a short write may leave unwritten
MaxShort == 1
\* path segments of the URLs the request builder is given
MaxSegs == 2

\* timeout=3.0 of get and post, in seconds
Timeout == 3
\* socket.recv(1024)
RecvSize == 1024
\* config.ERROR_RETRY_TIME
ERROR_RETRY_TIME == 3

\* config.DESTINATION_URL
DESTINATION_URL ==
    <<"h", "t", "t", "p", ":", "/", "/", "1", "7", "2", ".", "1", "6", ".",
      "1", "5", "3", ".", "1", "5", "0", "/", "d", "a", "t", "a">>

\* A URL as its author composes it: scheme, "://" (or not), host, an
\* optional ":port", and the segments after the authority.
UrlParts(scheme, sep, host, hasPort, port, segs) ==
    [scheme |-> scheme, sep |-> sep, host |-> host, hasPort |-> hasPort,
     port |-> port.s, portNum |-> port.n, segs |-> segs]

MakeURL(p) ==
    p.scheme \o (IF p.sep THEN <<":", "/", "/">> ELSE <<>>) \o p.host
    \o (IF p.hasPort THEN <<":">> \o p.port ELSE <<>>)
    \o Concat([i \in 1..Len(p.segs) |-> <<"/">> \o p.segs[i]])

Http == <<"h", "t", "t", "p">>
Hosts == {<<"h">>, <<"1", ".", "2">>}
\* a port as its text and the number the text denotes
Port(s, n) == [s |-> s, n |-> n]
NoPortGiven == Port(<<>>, 80)
Ports == {Port(<<"9">>, 9), Port(<<"9", "0", "0", "0">>, 9000)}
Segs == {<<>>, <<"a">>}
SegLists == UNION {[1..n -> Segs] : n \in 0..MaxSegs}

\* the URLs http://host[:port][/seg...]
WellFormedURLs ==
    {UrlParts(Http, TRUE, h, FALSE, NoPortGiven, sl) : h \in Hosts, sl \in SegLists}
    \cup {UrlParts(Http, TRUE, h, TRUE, p, sl) : h \in Hosts, p \in Ports, sl \in SegLists}

\* the URLs of the calls: well-formed ones, other schemes, no "://", a
\* port that is no number
CallURLs ==
    {UrlParts(Http, TRUE, <<"h">>, FALSE, NoPortGiven, <<<<"a">>>>),
     UrlParts(Http, TRUE, <<"h">>, TRUE, Port(<<"x">>, 0), <<<<"a">>>>),
     UrlParts(<<"h", "t", "t", "p", "s">>, TRUE, <<"h">>, FALSE, NoPortGiven, <<<<>>>>),
     UrlParts(<<"f", "t", "p">>, TRUE, <<"h">>, FALSE, NoPortGiven, <<<<>>>>),
     UrlParts(<<>>, FALSE, <<"h">>, FALSE, NoPortGiven, <<<<"a">>>>),
     UrlParts(Http, FALSE, <<"h">>, FALSE, NoPortGiven, <<>>)}

\* config.DESTINATION_URL, as composed
DestinationParts ==
    UrlParts(Http, TRUE,
             <<"1", "7", "2", ".", "1", "6", ".", "1", "5", "3", ".", "1", "5", "0">>,
             FALSE, NoPortGiven, <<<<"d", "a", "t", "a">>>>)

\* data: form parameters, one of them with a two-byte character
DataSet == {<<>>, <<<<<<"k">>, <<"U+E9">>>>>>, <<<<<<"a">>, <<"1">>>>, <<<<"b">>, <<"2">>>>>>}
\* json: dictionaries of integers
JsonSet == {<<>>, <<<<<<"x">>, 1>>>>}
\* headers of the caller
HeaderSet == {<<>>, <<<<<<"X">>, <<"y">>>>>>}

\* the arguments of get and post; get() has no json parameter
Inputs(urls, datas, hdrs) ==
    {[m |-> HTTP_GET, u |-> u, url |-> MakeURL(u), d |-> d, j |-> <<>>, h |-> h] :
        u \in urls, d \in datas, h \in hdrs}
    \cup {[m |-> HTTP_POST, u |-> u, url |-> MakeURL(u), d |-> d, j |-> j, h |-> h] :
        u \in urls, d \in datas, j \in JsonSet, h \in hdrs}

\* what the sensors deliver: temperature, humidity, pressure, wind speed,
\* rain
Measurements == {<<21, 40, 1013, 0, 0>>, <<0, 99, 987, 7, 3>>}

\* What the peer answers: a status line, header lines, a body.
\* n is the number the code's text denotes, -1 when it denotes none.
PeerCodes == {[s |-> <<"2", "0", "0">>, n |-> 200], [s |-> <<"a", "b">>, n |-> -1]}
PeerHeaders == {<<>>, <<<<<<"A">>, <<"b">>>>, <<<<"C">>, <<"d">>>>>>}
PeerBodies == {<<"a", CR, LF, CR, LF, "b">>, <<"xFF">>}
PeerResponses ==
    {[code |-> c.s, codeNum |-> c.n, hdrs |-> h, body |-> b] :
        c \in PeerCodes, h \in PeerHeaders, b \in PeerBodies}
NoPeer == [code |-> <<>>, codeNum |-> -1, hdrs |-> <<>>, body |-> <<>>]

\* the bytes of the peer's response "VERSION CODE REASON\r\n" + headers + "\r\n" + body
Serialize(r) ==
    HTTP_VERSION \o <<" ">> \o r.code \o <<" ", "O", "K">> \o CRLF
    \o HeaderLines(r.hdrs) \o CRLF \o r.body

\* ------------------------------------------------------------------------
\* State
\* ------------------------------------------------------------------------

VARIABLES
    pc,         \* where the get/post call is: Idle, Constructed, Connected,
                \* Sent, Receiving, Returned, Raised
    method, urlParts, url, data, json, headers,   \* the arguments of the call
    sock,       \* the call's socket: none, open, connected, closed
    closes,     \* socket.close() calls on the call's socket
    leaked,     \* sockets of earlier calls that were never closed
    calls,      \* calls made so far
    dest,       \* the address given to socket.connect
    wire,       \* the bytes socket.send accepted
    peerParts,  \* the response the peer is sending
    buf,        \* response_buffer
    blocked,    \* seconds the current transport operation (connect, send,
                \* the receive loop) has blocked, counted up to Timeout + 1
    error,      \* the exception the call raised
    raw,        \* raw_http_response of the HTTPResponse the call returned
    mpc,        \* where the main loop is: measure, post, deepsleep, except
    errMsgs,    \* "Error occurred" debug messages written
    waited      \* seconds slept in the except clause

callvars == <<pc, method, urlParts, url, data, json, headers, sock, closes, leaked,
              calls, dest, wire, peerParts, buf, blocked, error, raw>>
mainvars == <<mpc, errMsgs, waited>>
vars == <<callvars, mainvars>>

NoDest == [host |-> <<>>, port |-> 0]

Init ==
    /\ pc = "Idle"
    /\ method = <<>> /\ urlParts = UrlParts(<<>>, FALSE, <<>>, FALSE, NoPortGiven, <<>>)
    /\ url = <<>> /\ data = <<>> /\ json = <<>> /\ headers = <<>>
    /\ sock = "none" /\ closes = 0 /\ leaked = 0 /\ calls = 0
    /\ dest = NoDest /\ wire = <<>> /\ peerParts = NoPeer /\ buf = <<>>
    /\ blocked = 0 /\ error = "none" /\ raw = <<>>
    /\ mpc = "measure" /\ errMsgs = 0 /\ waited = 0

Terminal == {"Returned", "Raised"}

\* the socket of a call that is over is dropped, closed or not
Dropped == IF sock \in {"open", "connected"} THEN 1 ELSE 0

\* ------------------------------------------------------------------------
\* get / post
\* ------------------------------------------------------------------------

\* get/post create the HTTPRequest; __init__ stores the arguments and
\* creates the socket with its timeout
NewRequest(in) ==
    /\ method' = in.m /\ urlParts' = in.u /\ url' = in.url
    /\ data' = in.d /\ json' = in.j /\ headers' = in.h
    /\ sock' = "open" /\ closes' = 0 /\ calls' = calls + 1
    /\ leaked' = leaked + Dropped
    /\ dest' = NoDest /\ wire' = <<>> /\ peerParts' = NoPeer /\ buf' = <<>>
    /\ blocked' = 0 /\ error' = "none" /\ raw' = <<>>
    /\ pc' = "Constructed"

\* a caller calls get or post, again once the call before is over
CallStart ==
    /\ pc \in {"Idle"} \cup Terminal
    /\ calls < MaxCalls
    /\ \E in \in Inputs(CallURLs, {<<>>, <<<<<<"k">>, <<"U+E9">>>>>>}, {<<>>}) : NewRequest(in)
    /\ UNCHANGED mainvars

\* a caller calls get or post once, with a well-formed URL
BuildStart ==
    /\ pc = "Idle"
    /\ \E in \in Inputs(WellFormedURLs, DataSet, HeaderSet) : NewRequest(in)
    /\ UNCHANGED mainvars

\* what an operation that ends before the timeout may take: no time, or
\* all but the last second
Delays == {0, Timeout - 1}

\* the outcomes of socket.connect: connected after dt seconds, refused
\* after dt seconds, or no answer within the timeout
ConnectOutcomes ==
    {[ok |-> o, dt |-> dt] : o \in BOOLEAN, dt \in Delays}
    \cup {[ok |-> FALSE, dt |-> Timeout]}

\* the rest of HTTPRequest.__init__: the URL is parsed, the port converted,
\* the socket connected
Connect ==
    /\ pc = "Constructed"
    /\ LET t == _parse_url(url)
       IN  IF t.err # "none"
           THEN /\ pc' = "Raised" /\ error' = t.err
                /\ UNCHANGED <<sock, dest, blocked>>
           ELSE IF PortFails(t.netloc_port)
           THEN /\ pc' = "Raised" /\ error' = "ValueError"
                /\ UNCHANGED <<sock, dest, blocked>>
           ELSE \E o \in ConnectOutcomes :
                /\ blocked' = o.dt
                /\ dest' = [host |-> t.netloc_host, port |-> PortValue(t.netloc_port)]
                /\ pc' = IF o.ok THEN "Connected" ELSE "Raised"
                /\ error' = IF o.ok THEN "none" ELSE "OSError"
                /\ sock' = IF o.ok THEN "connected" ELSE sock
    /\ UNCHANGED <<method, urlParts, url, data, json, headers, closes, leaked, calls,
                   wire, peerParts, buf, raw, mainvars>>

\* the request as HTTPRequest.send_http_request encodes it
http_request == Encode(construct_http_request(method, url, data, json, headers))

\* the outcomes of socket.send: n bytes accepted after dt seconds (n is
\* what send returns), or an error, or no progress within the timeout
SendOutcomes ==
    {[ok |-> TRUE, n |-> Len(http_request) - k, dt |-> dt] :
        k \in 0..Min(MaxShort, Len(http_request) - 1), dt \in Delays}
    \cup {[ok |-> FALSE, n |-> 0, dt |-> dt] : dt \in Delays \cup {Timeout}}

\* HTTPRequest.send_http_request
send_http_request ==
    /\ pc = "Connected"
    /\ \E o \in SendOutcomes :
        /\ blocked' = o.dt
        /\ wire' = SubSeq(http_request, 1, o.n)
        /\ pc' = IF o.ok THEN "Sent" ELSE "Raised"
        /\ error' = IF o.ok THEN "none" ELSE "OSError"
    /\ UNCHANGED <<method, urlParts, url, data, json, headers, sock, closes, leaked,
                   calls, dest, peerParts, buf, raw, mainvars>>

\* the bytes the peer has not delivered yet
Pending(r) == Tail_(Serialize(r), Len(buf) + 1)

\* the outcomes of one socket.recv(1024): n > 0 bytes after dt seconds, no
\* byte because the peer closed (n = 0), or an error or the timeout
RecvOutcomes(r) ==
    {[ok |-> TRUE, n |-> n, dt |-> dt] :
        n \in 0..Min(RecvSize, Len(Pending(r))), dt \in Delays}
    \cup {[ok |-> FALSE, n |-> 0, dt |-> dt] : dt \in Delays \cup {Timeout}}

\* HTTPRequest.get_http_response, one turn of its loop: a chunk is
\* appended; or the loop ends, the socket is closed, the buffer decoded and
\* the HTTPResponse returned; or recv raises
get_http_response ==
    /\ pc \in {"Sent", "Receiving"}
    /\ \E r \in (IF pc = "Sent" THEN PeerResponses ELSE {peerParts}) :
       \E o \in RecvOutcomes(r) :
        /\ peerParts' = r
        /\ blocked' = Min((IF pc = "Sent" THEN 0 ELSE blocked) + o.dt, Timeout + 1)
        /\ buf' = buf \o SubSeq(Pending(r), 1, o.n)
        /\ sock' = IF o.ok /\ o.n = 0 THEN "closed" ELSE sock
        /\ closes' = IF o.ok /\ o.n = 0 THEN closes + 1 ELSE closes
        /\ pc' = IF ~o.ok THEN "Raised"
                 ELSE IF o.n > 0 THEN "Receiving"
                 ELSE IF DecodeFails(buf) THEN "Raised" ELSE "Returned"
        /\ error' = IF ~o.ok THEN "OSError"
                    ELSE IF o.n = 0 /\ DecodeFails(buf) THEN "UnicodeError" ELSE "none"
        /\ raw' = IF o.ok /\ o.n = 0 /\ ~DecodeFails(buf) THEN Decode(buf) ELSE raw
    /\ UNCHANGED <<method, urlParts, url, data, json, headers, leaked, calls, dest,
                   wire, mainvars>>

\* ------------------------------------------------------------------------
\* main.py: the measure-and-report loop
\* ------------------------------------------------------------------------

\* retries of the main loop between two deep sleeps
MaxRetries == 2

http_body_json_data(t, h, p, w, r) ==
    <<<<<<"t", "e", "m", "p", "e", "r", "a", "t", "u", "r", "e">>, t>>,
      <<<<"h", "u", "m", "i", "d", "i", "t", "y">>, h>>,
      <<<<"p", "r", "e", "s", "s", "u", "r", "e">>, p>>,
      <<<<"w", "i", "n", "d", "s", "p", "e", "e", "d">>, w>>,
      <<<<"r", "a", "i", "n">>, r>>>>

\* no HTTPRequest and no HTTPResponse is referenced any more
NoRequest ==
    /\ pc' = "Idle"
    /\ method' = <<>> /\ urlParts' = UrlParts(<<>>, FALSE, <<>>, FALSE, NoPortGiven, <<>>)
    /\ url' = <<>> /\ data' = <<>> /\ json' = <<>> /\ headers' = <<>>
    /\ sock' = "none" /\ closes' = 0
    /\ dest' = NoDest /\ wire' = <<>> /\ peerParts' = NoPeer /\ buf' = <<>>
    /\ blocked' = 0 /\ error' = "none" /\ raw' = <<>>

\* the try block up to the connect: the sensors are read (which may
\* raise), the JSON dictionary is built, send_data calls post, which
\* creates the HTTPRequest
MainMeasure ==
    /\ mpc = "measure"
    /\ errMsgs < MaxRetries
    /\ \/ /\ \E v \in Measurements :
                NewRequest([m |-> HTTP_POST, u |-> DestinationParts, url |-> DESTINATION_URL,
                            d |-> <<>>, j |-> http_body_json_data(v[1], v[2], v[3], v[4], v[5]),
                            h |-> <<>>])
          /\ mpc' = "post"
       \/ /\ mpc' = "except"
          /\ UNCHANGED callvars
    /\ UNCHANGED <<errMsgs, waited>>

\* (mutant) http_debug_message without the read of text
http_debug_message_StatusOnly ==
    /\ mpc = "post" /\ pc = "Returned"
    /\ mpc' = IF status_code(raw).err = "none" THEN "deepsleep" ELSE "except"
    /\ UNCHANGED <<callvars, errMsgs, waited>>

\* http_debug_message reads status_code and text of the response, each of
\* which may raise; deepsleep is the next statement
http_debug_message ==
    /\ mpc = "post" /\ pc = "Returned"
    /\ mpc' = IF status_code(raw).err = "none" /\ text(raw).err = "none"
              THEN "deepsleep" ELSE "except"
    /\ UNCHANGED <<callvars, errMsgs, waited>>

\* deepsleep(DEEPSLEEP_TIME): the device resets and starts over
MainDeepsleep ==
    /\ mpc = "deepsleep"
    /\ NoRequest
    /\ leaked' = 0 /\ calls' = 0
    /\ mpc' = "measure" /\ errMsgs' = 0 /\ waited' = 0

\* an exception is propagating to the except clause of the main loop
Failed == mpc = "except" \/ (mpc = "post" /\ pc = "Raised")

\* the except clause: one debug message, sleep(ERROR_RETRY_TIME), and the
\* loop starts over
MainExcept ==
    /\ Failed
    /\ errMsgs' = errMsgs + 1
    /\ waited' = waited + ERROR_RETRY_TIME
    /\ mpc' = "measure"
    /\ NoRequest
    /\ leaked' = leaked + Dropped
    /\ UNCHANGED calls

NextMain ==
    \/ MainMeasure
    \/ Connect
    \/ send_http_request
    \/ get_http_response
    \/ http_debug_message
    \/ MainDeepsleep
    \/ MainExcept

SpecMain == Init /\ [][NextMain]_vars

\* The library under any caller: call after call, each with any arguments.
Next ==
    \/ CallStart
    \/ Connect
    \/ send_http_request
    \/ get_http_response

Spec == Init /\ [][Next]_vars

\* The request builder alone: one call, up to the request on the wire.
NextBuild ==
    \/ BuildStart
    \/ Connect
    \/ send_http_request

SpecBuild == Init /\ [][NextBuild]_vars

\* ------------------------------------------------------------------------
\* What a request on the wire says
\* ------------------------------------------------------------------------

\* the lines between the request line and the blank line
WireHeaderLines(w) ==
    Split(SubSeq(w, Find(w, CRLF) + 2, Find(w, CRLFCRLF) - 1), CRLF)

\* the bytes after the blank line
WireBody(w) == Tail_(w, Find(w, CRLFCRLF) + 4)

HostPrefix == <<"H", "o", "s", "t", ":", " ">>
LengthPrefix ==
    <<"C", "o", "n", "t", "e", "n", "t", "-", "L", "e", "n", "g", "t", "h", ":", " ">>
IsHostLine(l) == StartsWith(l, HostPrefix)
IsLengthLine(l) == StartsWith(l, LengthPrefix)

\* the values of the header lines that start with the prefix
ValuesOf(lines, prefix) == [i \in 1..Len(lines) |-> Tail_(lines[i], Len(prefix) + 1)]
HostValues(w) == ValuesOf(SelectSeq(WireHeaderLines(w), IsHostLine), HostPrefix)
LengthValues(w) == ValuesOf(SelectSeq(WireHeaderLines(w), IsLengthLine), LengthPrefix)

\* the request was sent whole
SentWhole == pc = "Sent" /\ wire = http_request

\* the authority of the URL as composed: host, or host:port
Authority(p) == p.host \o (IF p.hasPort THEN <<":">> \o p.port ELSE <<>>)

\* the path of the URL as composed, "/" when no segment follows the host
ExpectedPath(p) ==
    IF p.segs = <<>> THEN <<"/">>
    ELSE Concat([i \in 1..Len(p.segs) |-> <<"/">> \o p.segs[i]])

\* the scheme token is http and "://" follows it
HttpScheme(p) == p.scheme = Http /\ p.sep

\* open sockets: those left by earlier calls and the call's own
OpenSockets == leaked + Dropped

\* ------------------------------------------------------------------------
\* The claims
\* ------------------------------------------------------------------------

\* C1: when a get or post call is over, however it ended, its socket has
\* been closed exactly once and no socket is open.
C1_ClosedExactlyOnce ==
    pc \in Terminal => closes = 1 /\ OpenSockets = 0

\* C2: a call that returns a response has received a status line, the
\* blank line and a numeric status code, and the accessors of the response
\* all succeed.
C2_NoUnparsableResponse ==
    pc = "Returned" =>
        /\ Find(raw, CRLF) # 0 /\ Find(raw, CRLFCRLF) # 0
        /\ status_code(raw).err = "none"
        /\ text(raw).err = "none"
        /\ headers_(raw).err = "none"

\* C3: a call goes on to receive only when the transport accepted the
\* whole request.
C3_ShortWriteFails ==
    pc \in {"Sent", "Receiving", "Returned"} => wire = http_request

\* C4: for a URL http://host[:port][/seg...], the address connected to is
\* the host and the port (80 when none is given) and the path is the
\* segments, each after a "/", or "/" when there is none.
C4_UrlParsed ==
    pc = "Connected" =>
        /\ dest.host = urlParts.host
        /\ dest.port = urlParts.portNum
        /\ _parse_url(url).path = ExpectedPath(urlParts)

\* C5: a call whose URL does not start with the scheme http and "://"
\* fails with the URL error, before connecting and with no byte sent.
C5_NonHttpRejected ==
    ~HttpScheme(urlParts) /\ pc \notin {"Idle", "Constructed"} =>
        /\ pc = "Raised" /\ error \in {"ValueError", "IndexError"}
        /\ sock # "connected" /\ wire = <<>>

\* C6 as stated: the request has one Host header, and its value is the
\* host without the port.
C6_HostWithoutPort ==
    SentWhole => HostValues(wire) = <<urlParts.host>>

\* C6 as amended: the request has one Host header, and its value is the
\* authority of the URL: the host, followed by ":" and the port when the
\* URL gives one.
C6_HostIsAuthority ==
    SentWhole => HostValues(wire) = <<Authority(urlParts)>>

\* C6, the case: a request sent whole for a URL with a port, the Host value
\* being host:port
C6_Witness ==
    /\ SentWhole /\ urlParts.hasPort
    /\ HostValues(wire) = <<urlParts.host \o <<":">> \o urlParts.port>>

\* C7: the body of a POST request is the JSON text when json is given and
\* the form-encoded data otherwise, and Content-Length is the number of
\* bytes of the body on the wire.
C7_ContentLengthInBytes ==
    SentWhole /\ method = HTTP_POST =>
        /\ WireBody(wire) = Encode(IF json # <<>> THEN _parse_http_json(json)
                                   ELSE _parse_http_data(data))
        /\ LengthValues(wire) = <<IntToStr(Len(WireBody(wire)))>>

\* the peer sent its whole response, a decodable one with a numeric code,
\* and the call returned it
WholeResponse ==
    pc = "Returned" /\ buf = Serialize(peerParts) /\ peerParts.codeNum >= 0

\* C8: of a response made of a status line, header lines, the blank line
\* and a body, status_code is the code, headers has one entry per header
\* line (none when there is none), and text is what follows the first
\* blank line.
C8_ResponseParsed ==
    WholeResponse =>
        /\ status_code(raw) = [NoValue EXCEPT !.int = peerParts.codeNum]
        /\ headers_(raw) = [NoValue EXCEPT !.map = peerParts.hdrs]
        /\ text(raw) = [NoValue EXCEPT !.str = peerParts.body]

\* C9: no transport operation of a call (connect, send, the receive loop)
\* blocks for longer than the timeout.
C9_BlockedAtMostTimeout ==
    blocked <= Timeout

\* C10: a failed cycle is followed by one debug message, a wait of
\* ERROR_RETRY_TIME and a new cycle from the measurement, and by nothing
\* else; the deep sleep is entered only when the POST returned a response
\* whose status code and text were read without error.
C10_RetryOrSleep ==
    [][/\ Failed => /\ errMsgs' = errMsgs + 1
                    /\ waited' = waited + ERROR_RETRY_TIME
                    /\ mpc' = "measure"
       /\ ~Failed /\ mpc # "deepsleep" => errMsgs' = errMsgs /\ waited' = waited
       /\ mpc' = "deepsleep" =>
            /\ pc' = "Returned" /\ error' = "none"
            /\ status_code(raw').err = "none"
            /\ text(raw').err = "none"]_vars

\* C10, the case: the deep sleep is reached after a failed cycle whose
\* socket was left open, one message and one wait per failure
C10_Witness ==
    /\ mpc = "deepsleep" /\ errMsgs >= 1 /\ waited = errMsgs * ERROR_RETRY_TIME
    /\ leaked >= 1

====
